---- MODULE Spec2Model ----
(***************************************************************************)
(* Case-safe jar extraction of Luxxit-BuildTools (main.py,                 *)
(* extract_jar_case_safe and its nested fix_case_conflict).                *)
(*                                                                         *)
(* A character is a one-character string, a name or a file name a sequence *)
(* of characters, an output path a sequence of names below output_dir.     *)
(***************************************************************************)
EXTENDS Integers, Sequences, FiniteSets, TLC

\* ------------------------------------------------------------------ bounds
MaxEntries == 3     \* entries of an archive under Spec
LongEntries == 5    \* entries of an archive under SpecLong
MaxNameLen == 2     \* length of a name under SpecFix
MaxLedger == 2      \* names in the ledger set under SpecFix

\* ------------------------------------------------------- characters, names
Chars == {"a", "A", "_"}

\* str.lower() on one character
Lower(c) == IF c = "A" THEN "a" ELSE c

NamesOfLen(n) == [1..n -> Chars]
AllNames == UNION {NamesOfLen(n) : n \in 1..MaxNameLen}

\* the ledger sets of at most MaxLedger names
LedgerSets ==
  {{}} \cup { {s[k] : k \in 1..MaxLedger} : s \in [1..MaxLedger -> AllNames] }

\* ZipInfo.filename values of the archives explored under Spec
FileNames ==
  { <<>>, <<"/">>,
    <<"a">>, <<"A">>, <<"a", "_">>, <<"A", "_">>,
    <<"a", "/">>, <<"A", "/">>, <<"a", "_", "/">>,
    <<"a", "/", "a">>, <<"a", "/", "A">>, <<"A", "/", "a">>,
    <<"a", "_", "/", "a">>, <<"a", "/", "/", "a">> }

\* ZipInfo.filename values of the longer archives explored under SpecLong
LongFileNames ==
  { <<"a">>, <<"A">>, <<"a", "_">>, <<"A", "_">>,
    <<"a", "_", "/">>, <<"a", "_", "/", "a">>, <<"a", "_", "/", "A">> }

\* ----------------------------------------------------------- fix_case_conflict
\* line 138: exist_name and name differ in the case of character 0 only
Conflict(exist_name, name) ==
  /\ Tail(exist_name) = Tail(name)
  /\ Lower(Head(exist_name)) = Lower(Head(name))
  /\ Head(exist_name) # Head(name)

\* a slip the spec's own data-model example makes: the existing name's first
\* character is kept instead of the new name's
RewrittenFromExisting(exist_name, name) == <<Head(exist_name), "_">> \o Tail(name)

\* line 140: the value returned when the scan stops at exist_name
Rewritten(exist_name, name) == <<Head(name), "_">> \o Tail(name)

\* the return indented into the loop: only the first name scanned is compared
FixCaseConflictFirstOnly(existing, name) ==
  IF existing = {} THEN {name}
  ELSE {IF Conflict(e, name) THEN Rewritten(e, name) ELSE name : e \in existing}

\* the tails are not compared: any name with the other-case first character
FixCaseConflictAnyTail(existing, name) ==
  IF existing = {} THEN {name}
  ELSE LET hits == {e \in existing : Lower(Head(e)) = Lower(Head(name))
                                      /\ Head(e) # Head(name)}
       IN  IF hits = {} THEN {name} ELSE {Rewritten(e, name) : e \in hits}

\* lines 132-141.  `existing` is a Python set, scanned in an order the
\* interpreter picks (string hashing is randomised per process): the scan
\* returns at the first conflicting name it meets, and any conflicting name can
\* be the first.  The result is the set of values the call can return.
FixCaseConflict(existing, name) ==
  IF existing = {} THEN {name}
  ELSE LET hits == {e \in existing : Conflict(e, name)}
       IN  IF hits = {} THEN {name} ELSE {Rewritten(e, name) : e \in hits}

\* ------------------------------------------------------------------ paths
\* str.split('/')
RECURSIVE Split(_)
Split(s) ==
  IF s = <<>> THEN << <<>> >>
  ELSE IF Head(s) = "/" THEN << <<>> >> \o Split(Tail(s))
  ELSE LET r == Split(Tail(s))
       IN  << <<Head(s)>> \o Head(r) >> \o Tail(r)

\* ZipInfo.is_dir(): the file name ends with '/'
IsDir(filename) == filename # <<>> /\ filename[Len(filename)] = "/"

\* the output directory itself
output_dir == <<>>

Prefixes(path) == {SubSeq(path, 1, n) : n \in 0..Len(path)}

\* os.path.dirname of a path below output_dir
Dirname(path) == SubSeq(path, 1, Len(path) - 1)

Ledger(dc, parent) == IF parent \in DOMAIN dc THEN dc[parent] ELSE {}

\* the segment as it stands in the archive is recorded, not the name written
RECURSIVE WalkRecordOriginal(_, _, _)
WalkRecordOriginal(parts, curr_dir, dc) ==
  IF parts = <<>> THEN {[target_path |-> curr_dir, dir_contents |-> dc]}
  ELSE IF Head(parts) = <<>> THEN WalkRecordOriginal(Tail(parts), curr_dir, dc)
  ELSE LET existing == Ledger(dc, curr_dir)
       IN  UNION { WalkRecordOriginal(Tail(parts), Append(curr_dir, fixed_part),
                        [p \in DOMAIN dc \cup {curr_dir} |->
                           IF p = curr_dir THEN existing \cup {Head(parts)} ELSE dc[p]]) :
                     fixed_part \in FixCaseConflict(existing, Head(parts)) }

\* lines 153-163: the walk over the segments of one entry.  The result is the
\* set of outcomes (target_path and the ledger after the walk).
RECURSIVE Walk(_, _, _)
Walk(parts, curr_dir, dc) ==
  IF parts = <<>> THEN {[target_path |-> curr_dir, dir_contents |-> dc]}
  ELSE IF Head(parts) = <<>> THEN Walk(Tail(parts), curr_dir, dc)
  ELSE LET existing == Ledger(dc, curr_dir)
       IN  UNION { Walk(Tail(parts), Append(curr_dir, fixed_part),
                        [p \in DOMAIN dc \cup {curr_dir} |->
                           IF p = curr_dir THEN existing \cup {fixed_part} ELSE dc[p]]) :
                     fixed_part \in FixCaseConflict(existing, Head(parts)) }

\* ----------------------------------------------------------------- state
VARIABLES
  jar,            \* the entries read so far from jar.infolist(), in archive order
  dir_contents,   \* the ledger: parent path -> set of names written under it
  dirs,           \* directories that exist on disk (paths below output_dir)
  files,          \* files that exist on disk: path -> content
  targets,        \* target_path of each entry read (Skipped for a skipped one)
  status,         \* "running", "done" (the with block was left), "failed" (raised)
  existing,       \* SpecFix: the ledger set passed to fix_case_conflict
  part,           \* SpecFix: the segment passed to fix_case_conflict
  fixed_part,     \* SpecFix: the value returned (NoName before the call)
  added,          \* SpecFix: the ledger set after line 161
  os_name,        \* SpecPipeline: what platform.system() stands for
  has_git,        \* SpecPipeline: check_git() of patching.py
  pc,             \* SpecPipeline: the step main_cli is about to run
  ran,            \* SpecPipeline: the steps that returned, in order
  ended,          \* SpecPipeline: "none", "raised", "exit1" or "success"
  cause,          \* SpecPipeline: what ended the run
  scripts         \* SpecPipeline: the startup scripts written

vars == <<jar, dir_contents, dirs, files, targets, status,
          existing, part, fixed_part, added,
          os_name, has_git, pc, ran, ended, cause, scripts>>
extraction == <<jar, dir_contents, dirs, files, targets, status>>
call == <<existing, part, fixed_part, added>>
pipeline == <<os_name, has_git, pc, ran, ended, cause, scripts>>

\* main_cli has not been started
PipelineIdle ==
  /\ os_name = "linux"
  /\ has_git = TRUE
  /\ pc = "prepare"
  /\ ran = <<>>
  /\ ended = "none"
  /\ cause = ""
  /\ scripts = {}

Skipped == << <<"/">> >>   \* no path: a name never holds a slash
NoName == <<"/">>

\* file contents: entry i's payload, an empty file, a partly written payload
Payload(i) == i
Truncated == 0
Partial(i) == 0 - i

Faults == {"none", "makedirs", "open_src", "open_dst", "read", "write"}

\* ------------------------------------------------------------------ Init
Init ==
  /\ jar = <<>>
  /\ dir_contents = <<>>
  /\ dirs = {output_dir}
  /\ files = <<>>
  /\ targets = <<>>
  /\ status = "running"
  /\ existing = {}
  /\ part = NoName
  /\ fixed_part = NoName
  /\ added = {}
  /\ PipelineIdle

\* ------------------------------------------------------------- the disk
\* os.makedirs(path, exist_ok=True) raises when a component of path is a file
MakedirsBlocked(fs, path) == \E p \in Prefixes(path) : p \in DOMAIN fs

\* os.makedirs(path, exist_ok=True): every missing component is created
Makedirs(ds, path) == ds \cup Prefixes(path)

\* os.makedirs stopped by the system at some component: those above it exist
MakedirsStopped(ds, path) ==
  {ds \cup Prefixes(SubSeq(path, 1, n)) : n \in 0..(Len(path) - 1)}

Put(fs, path, content) ==
  [p \in DOMAIN fs \cup {path} |-> IF p = path THEN content ELSE fs[p]]

Outcome(ds, fs, st) == [dirs |-> ds, files |-> fs, status |-> st]

\* a failed read or write removes what extraction had put under the parent
WriteFileRollback(ds, fs, target_path, i, fault) ==
  LET parent == Dirname(target_path)
      made == Makedirs(ds, parent)
      kept == {p \in DOMAIN fs : Dirname(p) # parent}
      rolled == [p \in kept |-> fs[p]]
  IN  IF MakedirsBlocked(fs, parent) THEN {Outcome(ds, fs, "failed")}
      ELSE IF fault = "makedirs" /\ parent \notin ds
        THEN {Outcome(d, fs, "failed") : d \in MakedirsStopped(ds, parent)}
      ELSE IF fault = "open_src" THEN {Outcome(made, fs, "failed")}
      ELSE IF target_path \in made \/ fault = "open_dst"
        THEN {Outcome(made, fs, "failed")}
      ELSE IF fault \in {"read", "write"} THEN {Outcome(made, rolled, "failed")}
      ELSE {Outcome(made, Put(fs, target_path, Payload(i)), "running")}

\* lines 168-170, entry number i, on a disk holding directories ds and files
\* fs: the parent directory is made, the entry is opened in the archive, the
\* output file is opened for writing (created or emptied), the payload is
\* read, then written.  The result is the set of disks the step can leave.
WriteFile(ds, fs, target_path, i, fault) ==
  LET parent == Dirname(target_path)
      made == Makedirs(ds, parent)
  IN  IF MakedirsBlocked(fs, parent) THEN {Outcome(ds, fs, "failed")}
      ELSE IF fault = "makedirs" /\ parent \notin ds
        THEN {Outcome(d, fs, "failed") : d \in MakedirsStopped(ds, parent)}
      ELSE IF fault = "open_src" THEN {Outcome(made, fs, "failed")}
      ELSE IF target_path \in made \/ fault = "open_dst"
        THEN {Outcome(made, fs, "failed")}
      ELSE IF fault = "read"
        THEN {Outcome(made, Put(fs, target_path, Truncated), "failed")}
      ELSE IF fault = "write"
        THEN {Outcome(made, Put(fs, target_path, Partial(i)), "failed")}
      ELSE {Outcome(made, Put(fs, target_path, Payload(i)), "running")}

\* makedirs without exist_ok: a directory that exists is an error
MakeDirNotExistOk(ds, fs, target_path, fault) ==
  IF MakedirsBlocked(fs, target_path) \/ target_path \in ds
    THEN {Outcome(ds, fs, "failed")}
  ELSE IF fault = "makedirs"
    THEN {Outcome(d, fs, "failed") : d \in MakedirsStopped(ds, target_path)}
  ELSE {Outcome(Makedirs(ds, target_path), fs, "running")}

\* line 166
MakeDir(ds, fs, target_path, fault) ==
  IF MakedirsBlocked(fs, target_path) THEN {Outcome(ds, fs, "failed")}
  ELSE IF fault = "makedirs" /\ target_path \notin ds
    THEN {Outcome(d, fs, "failed") : d \in MakedirsStopped(ds, target_path)}
  ELSE {Outcome(Makedirs(ds, target_path), fs, "running")}

\* lines 165-170
Materialize(ds, fs, filename, target_path, i, fault) ==
  IF IsDir(filename) THEN MakeDir(ds, fs, target_path, fault)
  ELSE WriteFile(ds, fs, target_path, i, fault)

\* the skip test of line 149 left out: the empty file name is walked too
SkippedNever(parts) == FALSE

\* line 149: not parts or parts == ['']
SkippedEntry(parts) == parts = <<>> \/ parts = << <<>> >>

\* ---------------------------------------------------------------- actions
\* lines 147-170: one pass of the loop body, on the next entry of the archive
ProcessEntry(filename, fault) ==
  /\ status = "running"
  /\ jar' = Append(jar, filename)
  /\ LET parts == Split(filename)
     IN  IF SkippedEntry(parts)
         THEN /\ targets' = Append(targets, Skipped)
              /\ UNCHANGED <<dir_contents, dirs, files, status>>
         ELSE \E w \in Walk(parts, output_dir, dir_contents) :
                \E o \in Materialize(dirs, files, filename, w.target_path,
                                      Len(jar) + 1, fault) :
                  /\ dir_contents' = w.dir_contents
                  /\ targets' = Append(targets, w.target_path)
                  /\ dirs' = o.dirs
                  /\ files' = o.files
                  /\ status' = o.status
  /\ UNCHANGED call
  /\ UNCHANGED pipeline

\* an archive of at most MaxEntries entries, any system failure
ReadEntry ==
  /\ Len(jar) < MaxEntries
  /\ \E filename \in FileNames, fault \in Faults : ProcessEntry(filename, fault)

\* a longer archive over fewer names, no system failure
ReadLongEntry ==
  /\ Len(jar) < LongEntries
  /\ \E filename \in LongFileNames : ProcessEntry(filename, "none")

\* line 147: infolist() is exhausted, the with block of line 143 is left
Finish ==
  /\ status = "running"
  /\ status' = "done"
  /\ UNCHANGED <<jar, dir_contents, dirs, files, targets>>
  /\ UNCHANGED call
  /\ UNCHANGED pipeline

Next == ReadEntry \/ Finish
Spec == Init /\ [][Next]_vars

NextLong == ReadLongEntry \/ Finish
SpecLong == Init /\ [][NextLong]_vars

\* lines 160-161 alone, on any ledger set and any segment
InitFix ==
  /\ jar = <<>>
  /\ dir_contents = <<>>
  /\ dirs = {output_dir}
  /\ files = <<>>
  /\ targets = <<>>
  /\ status = "running"
  /\ existing \in LedgerSets
  /\ part \in AllNames
  /\ fixed_part = NoName
  /\ added = existing
  /\ PipelineIdle

ResolveSegment ==
  /\ fixed_part = NoName
  /\ \E r \in FixCaseConflict(existing, part) :
       /\ fixed_part' = r
       /\ added' = existing \cup {r}
  /\ UNCHANGED <<existing, part>>
  /\ UNCHANGED extraction
  /\ UNCHANGED pipeline

NextFix == ResolveSegment
SpecFix == InitFix /\ [][NextFix]_vars

\* ------------------------------------------------- main_cli and thestuff
\* the steps of main_cli (lines 181-220) and thestuff (lines 311-360), in the
\* order of the calls
Steps == << "prepare", "jdk", "luxdelux", "maven", "decompile", "extract",
            "restructure", "renames", "patch", "build", "package" >>

StepIndex(s) == CHOOSE k \in 1..Len(Steps) : Steps[k] = s
After(s) == IF StepIndex(s) < Len(Steps) THEN Steps[StepIndex(s) + 1] ELSE "end"

\* the step at pc is the one about to run, and nothing has ended the run
At(s) == pc = s /\ ended = "none"

\* the step returned: main_cli goes on to the next call
Returned(s) ==
  /\ ran' = Append(ran, s)
  /\ pc' = After(s)
  /\ UNCHANGED <<os_name, has_git, ended, cause, scripts>>

\* an exception left the step, or it called sys.exit(1): nothing catches
\* either, the interpreter ends
Ended(how, why) ==
  /\ ended' = how
  /\ cause' = why
  /\ UNCHANGED <<os_name, has_git, pc, ran, scripts>>

\* lines 182-187: detect_os, clean_and_prepare_dirs, write_info_file
PrepareDirs ==
  /\ At("prepare")
  /\ IF os_name = "other" THEN Ended("raised", "Unsupported OS")
     ELSE \/ Returned("prepare")
          \/ Ended("raised", "directories")
  /\ UNCHANGED <<extraction, call>>

\* lines 188-196: the JDK is downloaded, extracted, its archive removed
DownloadJava ==
  /\ At("jdk")
  /\ \/ Returned("jdk")
     \/ Ended("raised", "download or extraction")
     \/ Ended("exit1", "tqdm not installed")
  /\ UNCHANGED <<extraction, call>>

\* lines 197-204
DownloadLuxDelux ==
  /\ At("luxdelux")
  /\ \/ Returned("luxdelux")
     \/ Ended("raised", "download or extraction")
  /\ UNCHANGED <<extraction, call>>

\* lines 205-212
DownloadMaven ==
  /\ At("maven")
  /\ \/ Returned("maven")
     \/ Ended("raised", "download or extraction")
  /\ UNCHANGED <<extraction, call>>

\* lines 213-218: prepare_fernflower_and_luxcore, find_java_bin_dir,
\* run_fernflower
Decompile ==
  /\ At("decompile")
  /\ \/ Returned("decompile")
     \/ Ended("raised", "fernflower.jar download")
     \/ Ended("raised", "LuxCore.jar does not exist")
     \/ Ended("raised", "Could not find Java bin directory")
     \/ Ended("raised", "Fernflower decompilation failed")
  /\ UNCHANGED <<extraction, call>>

\* line 219: extract_decompiled_luxcore
ExtractDecompiledLuxcore ==
  /\ At("extract")
  /\ \/ Returned("extract")
     \/ Ended("raised", "decompiled LuxCore.jar does not exist")
     \/ Ended("raised", "extract_jar_case_safe")
  /\ UNCHANGED <<extraction, call>>

\* line 313: refactor_luxxit_structure
RefactorLuxxitStructure ==
  /\ At("restructure")
  /\ \/ Returned("restructure")
     \/ Ended("raised", "move or download")
  /\ UNCHANGED <<extraction, call>>

\* line 314: process_renames
ProcessRenames ==
  /\ At("renames")
  /\ \/ Returned("renames")
     \/ Ended("raised", "renames.txt or rename")
  /\ UNCHANGED <<extraction, call>>

\* the error of the patch command is printed and apply_patch returns
ApplyPatchIgnoresFailure ==
  /\ At("patch")
  /\ \/ Returned("patch")
     \/ /\ pc' = After("patch")
        /\ UNCHANGED <<os_name, has_git, ran, ended, cause, scripts>>
  /\ UNCHANGED <<extraction, call>>

\* line 317, patching.py lines 79-112: apply_patch, with git when there is
\* one, with patch otherwise; every failure ends in sys.exit(1)
ApplyPatch ==
  /\ At("patch")
  /\ \/ Returned("patch")
     \/ /\ has_git
        /\ Ended("exit1", "Error applying patch with git")
     \/ /\ ~has_git
        /\ Ended("exit1", "Error applying patch")
     \/ /\ ~has_git
        /\ Ended("exit1", "The 'patch' command is required")
  /\ UNCHANGED <<extraction, call>>

\* lines 320-344: the Maven build
MavenBuild ==
  /\ At("build")
  /\ \/ Returned("build")
     \/ Ended("exit1", "Maven build failed")
     \/ Ended("raised", "mvn not found")
  /\ UNCHANGED <<extraction, call>>

\* lines 346-360: the jar, the JDK and Support are moved, luxxit.cmd and then
\* luxxit.sh are written
Package ==
  /\ At("package")
  /\ \/ Ended("raised", "move")
     \/ /\ scripts' = {"luxxit.cmd"}
        /\ ended' = "raised"
        /\ cause' = "luxxit.sh"
        /\ UNCHANGED <<os_name, has_git, pc, ran>>
     \/ /\ scripts' = {"luxxit.cmd", "luxxit.sh"}
        /\ ran' = Append(ran, "package")
        /\ pc' = After("package")
        /\ ended' = "success"
        /\ UNCHANGED <<os_name, has_git, cause>>
  /\ UNCHANGED <<extraction, call>>

\* main_cli is started on some platform, with or without git
InitPipeline ==
  /\ jar = <<>>
  /\ dir_contents = <<>>
  /\ dirs = {output_dir}
  /\ files = <<>>
  /\ targets = <<>>
  /\ status = "running"
  /\ existing = {}
  /\ part = NoName
  /\ fixed_part = NoName
  /\ added = {}
  /\ os_name \in {"windows", "linux", "other"}
  /\ has_git \in BOOLEAN
  /\ pc = "prepare"
  /\ ran = <<>>
  /\ ended = "none"
  /\ cause = ""
  /\ scripts = {}

NextPipeline ==
  \/ PrepareDirs \/ DownloadJava \/ DownloadLuxDelux \/ DownloadMaven
  \/ Decompile \/ ExtractDecompiledLuxcore \/ RefactorLuxxitStructure
  \/ ProcessRenames \/ ApplyPatch \/ MavenBuild \/ Package
SpecPipeline == InitPipeline /\ [][NextPipeline]_vars


\* ------------------------------------------------------- reading the history
\* the segments of a file name: its non-empty parts
Segments(filename) == SelectSeq(Split(filename), LAMBDA p : p # <<>>)

\* entry i was read and walked, and no exception ended its pass of the loop
Written(i) ==
  /\ i \in 1..Len(jar)
  /\ targets[i] # Skipped
  /\ ~(status = "failed" /\ i = Len(jar))

\* entry i has a name: the last segment of its path
Named(i) == i \in 1..Len(jar) /\ Segments(jar[i]) # <<>>
NameOf(i) == Segments(jar[i])[Len(Segments(jar[i]))]
WrittenAs(i) == targets[i][Len(targets[i])]

FileEntry(i) == Named(i) /\ ~IsDir(jar[i])

\* the names the ledger held for directory dir when entry i was read: what the
\* walks of the entries before it had put there
LedgerBefore(i, dir) ==
  { targets[k][Len(dir) + 1] :
      k \in { k \in 1..(i - 1) : /\ targets[k] # Skipped
                                 /\ Len(targets[k]) > Len(dir)
                                 /\ SubSeq(targets[k], 1, Len(dir)) = dir } }

EqualIgnoreCase(x, y) ==
  /\ Len(x) = Len(y)
  /\ \A k \in 1..Len(x) : Lower(x[k]) = Lower(y[k])

\* ------------------------------------------------------------------ claims

\* C1 (as claimed): once an archive whose entries have pairwise different paths
\* is extracted, every file entry's payload is the content of the file at the
\* path it was resolved to: no entry's payload is overwritten by another's.
C1_EveryFileEntryKeepsItsFile ==
  ( /\ status = "done"
    /\ \A i, j \in 1..Len(jar) : i # j => Segments(jar[i]) # Segments(jar[j]) )
  => \A i \in 1..Len(jar) :
       FileEntry(i) => /\ targets[i] \in DOMAIN files
                       /\ files[targets[i]] = Payload(i)

\* C2 (as claimed): of two sibling entries whose names differ in the case of
\* the first character only, the earlier one is written under its own name and
\* the later one as name[0] + "_" + name[1:], whatever precedes them.
C2_FirstWriterWinsAlways ==
  \A i, j \in 1..Len(jar) :
    ( /\ i < j /\ Written(i) /\ Written(j) /\ Named(i) /\ Named(j)
      /\ Dirname(Segments(jar[i])) = Dirname(Segments(jar[j]))
      /\ Conflict(NameOf(i), NameOf(j)) )
    => /\ WrittenAs(i) = NameOf(i)
       /\ WrittenAs(j) = <<Head(NameOf(j)), "_">> \o Tail(NameOf(j))

\* C2 (amended): an entry is written under its own name when the ledger of its
\* output directory holds no name that differs from it in first-character case
\* only; and when the earlier of two such siblings of one output directory is
\* written under its own name, the later is written as name[0] + "_" + name[1:].
C2_FirstWriterWins ==
  /\ \A i \in 1..Len(jar) :
       ( /\ Written(i) /\ Named(i)
         /\ \A e \in LedgerBefore(i, Dirname(targets[i])) : ~Conflict(e, NameOf(i)) )
       => WrittenAs(i) = NameOf(i)
  /\ \A i, j \in 1..Len(jar) :
       ( /\ i < j /\ Written(i) /\ Written(j) /\ Named(i) /\ Named(j)
         /\ Dirname(targets[i]) = Dirname(targets[j])
         /\ Conflict(NameOf(i), NameOf(j))
         /\ WrittenAs(i) = NameOf(i) )
       => WrittenAs(j) = <<Head(NameOf(j)), "_">> \o Tail(NameOf(j))

\* C2 witness: "a/A" then "a/a" were written as a/A and a/a_, after an entry
\* that precedes both.
C2_Witness ==
  \E i, j \in 1..Len(jar) :
    /\ 1 < i /\ i < j /\ Written(i) /\ Written(j)
    /\ jar[i] = <<"a", "/", "A">> /\ jar[j] = <<"a", "/", "a">>
    /\ targets[i] = << <<"a">>, <<"A">> >>
    /\ targets[j] = << <<"a">>, <<"a", "_">> >>

\* C3 (as claimed): two sibling entries of one output directory whose names
\* differ in the case of the first character only are written under names that
\* differ by more than case.
C3_NoCaseCollision ==
  \A i, j \in 1..Len(jar) :
    ( /\ i < j /\ Written(i) /\ Written(j) /\ Named(i) /\ Named(j)
      /\ Dirname(Segments(jar[i])) = Dirname(Segments(jar[j]))
      /\ Dirname(targets[i]) = Dirname(targets[j])
      /\ Conflict(NameOf(i), NameOf(j)) )
    => ~EqualIgnoreCase(WrittenAs(i), WrittenAs(j))

\* C4 (as claimed): no ledger set ever holds two names that differ in the case
\* of the first character only.
C4_LedgerHasNoFirstCharCollision ==
  \A parent \in DOMAIN dir_contents :
    \A x, y \in dir_contents[parent] : ~Conflict(x, y)

\* C5 (as claimed): two entries with the same parent path in the archive are
\* written into the same output directory.
C5_SameParentSameDirectory ==
  \A i, j \in 1..Len(jar) :
    ( /\ i < j /\ Written(i) /\ Written(j) /\ Named(i) /\ Named(j)
      /\ Dirname(Segments(jar[i])) = Dirname(Segments(jar[j])) )
    => Dirname(targets[i]) = Dirname(targets[j])

\* C6: a call of fix_case_conflict returns name[0] + "_" + name[1:] exactly
\* when the ledger set holds a name with the same tail and a first character
\* that is equal after lowercasing and different before; it returns the name
\* itself otherwise; and the ledger set gains the returned name and no other.
C6_RenameRuleScope ==
  fixed_part # NoName =>
    LET hit == \E e \in existing : /\ SubSeq(e, 2, Len(e)) = SubSeq(part, 2, Len(part))
                                   /\ Lower(e[1]) = Lower(part[1])
                                   /\ e[1] # part[1]
        renamed == <<part[1], "_">> \o SubSeq(part, 2, Len(part))
    IN  /\ hit => fixed_part = renamed
        /\ ~hit => fixed_part = part
        /\ added = existing \cup {fixed_part}

\* C6 witness: a segment was renamed although the ledger set also held the
\* segment itself and a name that differs from it in case at another place.
C6_Witness ==
  /\ fixed_part # NoName
  /\ fixed_part # part
  /\ part \in existing
  /\ Len(part) = 2

\* C6 witness of the narrow scope: the ledger set holds names that differ from
\* the segment in length and in the case of a later character, and the segment
\* is returned as it is.
C6_WitnessUnchanged ==
  /\ fixed_part = <<"a", "a">>
  /\ existing = { <<"A">>, <<"a", "A">> }

RECURSIVE SecondRun(_)
SecondRun(entries) ==
  IF entries = <<>>
  THEN [dir_contents |-> <<>>, dirs |-> {output_dir}, files |-> <<>>,
        targets |-> <<>>, status |-> "running"]
  ELSE LET n == Len(entries)
           before == SecondRun(SubSeq(entries, 1, n - 1))
           parts == Split(entries[n])
       IN  IF before.status # "running" THEN before
           ELSE IF SkippedEntry(parts)
             THEN [before EXCEPT !.targets = Append(@, Skipped)]
           ELSE LET w == CHOOSE w \in Walk(parts, output_dir, before.dir_contents) : TRUE
                    o == CHOOSE o \in Materialize(before.dirs, before.files, entries[n],
                                                  w.target_path, n, "none") : TRUE
                IN  [dir_contents |-> w.dir_contents, dirs |-> o.dirs,
                     files |-> o.files,
                     targets |-> Append(before.targets, w.target_path),
                     status |-> o.status]

\* C8: a run that has not failed has resolved every entry to the path, and
\* left on disk the directories and the files with the contents, that a second
\* run on the same entries gives, whatever order the ledger sets were scanned in.
C8_Deterministic ==
  status \in {"running", "done"} =>
    LET second == SecondRun(jar)
    IN  /\ second.status = "running"
        /\ targets = second.targets
        /\ dirs = second.dirs
        /\ files = second.files

\* C8 witness: a completed run in which a segment was renamed after a scan of
\* a ledger set of two names or more.
C8_Witness ==
  /\ status = "done"
  /\ \E i \in 1..Len(jar) :
       /\ Written(i) /\ Named(i)
       /\ WrittenAs(i) # NameOf(i)
       /\ Cardinality(LedgerBefore(i, Dirname(targets[i]))) >= 2

\* C9: the pass of the loop on an entry whose path has no segment (empty, or
\* separators only) raises nothing and changes neither the disk nor the ledger;
\* the path an entry is resolved to has one name per non-empty segment, the
\* segment or its rewriting.
C9_DegenerateSkipped ==
  [][ jar' # jar =>
        LET filename == jar'[Len(jar')]
            target_path == targets'[Len(jar')]
        IN  /\ Segments(filename) = <<>> =>
                 /\ status' = "running"
                 /\ dir_contents' = dir_contents
                 /\ dirs' = dirs
                 /\ files' = files
                 /\ target_path \in {Skipped, output_dir}
            /\ Segments(filename) # <<>> =>
                 /\ Len(target_path) = Len(Segments(filename))
                 /\ \A k \in 1..Len(target_path) :
                      target_path[k] \in
                        { Segments(filename)[k],
                          <<Head(Segments(filename)[k]), "_">>
                             \o Tail(Segments(filename)[k]) } ]_vars

\* C9 witness: "", "/" and "a//a" were extracted: one file a/a, nothing else.
C9_Witness ==
  /\ status = "done"
  /\ jar = << <<>>, <<"/">>, <<"a", "/", "/", "a">> >>
  /\ targets = << Skipped, output_dir, << <<"a">>, <<"a">> >> >>
  /\ DOMAIN files = { << <<"a">>, <<"a">> >> }
  /\ DOMAIN dir_contents = { output_dir, << <<"a">> >> }

\* C10 (as claimed): when the pass on an entry fails, every directory and file
\* on disk before that pass is still there with the content it had.
C10_FailureKeepsEveryContent ==
  [][ (status = "running" /\ status' = "failed") =>
        /\ dirs \subseteq dirs'
        /\ \A p \in DOMAIN files : p \in DOMAIN files' /\ files'[p] = files[p] ]_vars

\* C10 (amended): a failed run reads no further entry; when the pass on an
\* entry fails, every directory and file on disk before that pass is still
\* there, and every file but the one at the failing entry's own resolved path
\* has the content it had.
C10_NoRollbackStopAtFailure ==
  [][ /\ status = "running"
      /\ (status' = "failed") =>
           /\ jar' # jar
           /\ dirs \subseteq dirs'
           /\ \A p \in DOMAIN files :
                /\ p \in DOMAIN files'
                /\ p # targets'[Len(jar')] => files'[p] = files[p] ]_vars

\* C10 witness: the third entry failed with a file and a directory of the
\* earlier entries on disk.
C10_Witness ==
  /\ status = "failed"
  /\ Len(jar) = 3
  /\ DOMAIN files # {}
  /\ dirs # {output_dir}

\* the names of what exists on disk directly under directory dir
ChildrenOf(ds, fs, dir) ==
  { p[Len(p)] : p \in { q \in ds \cup DOMAIN fs : /\ Len(q) = Len(dir) + 1
                                                   /\ Dirname(q) = dir } }

\* C11: a pass of the loop never takes a name or a key out of the ledger; it
\* adds to the ledger set of a directory at most the name it resolved the
\* segment under that directory to (the rewritten name when it renamed, not
\* the segment), and that name is in the set; and after a pass that raised
\* nothing, every ledger set equals the names of what is on disk directly
\* under its directory.
C11_LedgerAgreesWithDisk ==
  [][ jar' # jar =>
        LET target_path == targets'[Len(jar')]
            walked == target_path # Skipped
        IN  /\ \A dir \in DOMAIN dir_contents :
                 /\ dir \in DOMAIN dir_contents'
                 /\ dir_contents[dir] \subseteq dir_contents'[dir]
            /\ \A dir \in DOMAIN dir_contents' :
                 dir_contents'[dir] \ Ledger(dir_contents, dir) \subseteq
                   ( IF /\ walked
                        /\ Len(dir) < Len(target_path)
                        /\ SubSeq(target_path, 1, Len(dir)) = dir
                     THEN {target_path[Len(dir) + 1]}
                     ELSE {} )
            /\ walked =>
                 \A k \in 1..Len(target_path) :
                   /\ SubSeq(target_path, 1, k - 1) \in DOMAIN dir_contents'
                   /\ target_path[k] \in dir_contents'[SubSeq(target_path, 1, k - 1)]
            /\ status' # "failed" =>
                 \A dir \in DOMAIN dir_contents' :
                   dir_contents'[dir] = ChildrenOf(dirs', files', dir) ]_vars

\* C11 witness: "a/a" then "a/A" were extracted: the ledger of directory a
\* holds a and the rewritten A_, the names of the two files on disk.
C11_Witness ==
  /\ status = "done"
  /\ jar = << <<"a", "/", "a">>, <<"a", "/", "A">> >>
  /\ dir_contents = [ dir \in {output_dir, << <<"a">> >>} |->
                        IF dir = output_dir THEN { <<"a">> }
                        ELSE { <<"a">>, <<"A", "_">> } ]
  /\ DOMAIN files = { << <<"a">>, <<"a">> >>, << <<"a">>, <<"A", "_">> >> }

\* C12: the steps that have returned are always the first steps of the
\* pipeline, in its order (JDK, application archive, Maven, decompile,
\* case-safe extract, restructure, renames, patch, Maven build, package): a
\* step runs only after every step before it returned, and a run that a step
\* ended has run no later step; a startup script exists only when the patch
\* step and the Maven build returned; a successful run has run every step.
C12_PipelineOrder ==
  /\ ran = SubSeq(Steps, 1, Len(ran))
  /\ ended \in {"raised", "exit1"} =>
       /\ Len(ran) < Len(Steps)
       /\ pc = Steps[Len(ran) + 1]
  /\ scripts # {} =>
       \E i, j \in 1..Len(ran) : i < j /\ ran[i] = "patch" /\ ran[j] = "build"
  /\ "luxxit.sh" \in scripts => "luxxit.cmd" \in scripts
  /\ ended = "success" => ran = Steps /\ scripts = {"luxxit.cmd", "luxxit.sh"}

\* C12 witness: a run without git went through every step and wrote both
\* startup scripts.
C12_Witness ==
  /\ ended = "success"
  /\ ~has_git
  /\ ran = Steps
  /\ scripts = {"luxxit.cmd", "luxxit.sh"}

\* C12 witness of a failing step: git apply failed after the renames; neither
\* the Maven build nor the packaging ran, no script exists.
C12_WitnessPatchFailed ==
  /\ ended = "exit1"
  /\ cause = "Error applying patch with git"
  /\ ran = SubSeq(Steps, 1, 8)
  /\ scripts = {}

====
